---- MODULE Spec2Model ----
(***************************************************************************)
(* A model of the Kaleidoscope REPL compiler: the streaming lexer          *)
(* (src/src/lexer.rs), the recursive-descent / precedence-climbing parser  *)
(* (src/src/parser.rs), the lowering to IR (src/src/ast.rs) and the driver *)
(* (src/src/main.rs, parser.rs main_loop).                                 *)
(*                                                                         *)
(* The program's `State` struct is one record, `state`; standard input is  *)
(* the field `input` of that record, a panic (Rust `panic!`, a failed      *)
(* `assert!`, an `unwrap` on None/Err) is the field `panic`.  Every        *)
(* operator that models a Rust function takes the state and returns the    *)
(* state after the call; once `panic` is set the process is dead and every *)
(* operator returns the state unchanged.                                   *)
(***************************************************************************)
EXTENDS Integers, Sequences, FiniteSets, TLC

VARIABLES state, pc, node, log, given

vars == <<state, pc, node, log, given>>

(***************************************************************************)
(* Bounds of the model.                                                    *)
(***************************************************************************)
MaxLexLen == 4

(***************************************************************************)
(* Characters.  A char is a one-character string.                          *)
(***************************************************************************)
Letters ==
    {"a", "b", "c", "d", "e", "f", "g", "h", "i", "j", "k", "l", "m",
     "n", "o", "p", "q", "r", "s", "t", "u", "v", "w", "x", "y", "z"}

Digits == {"0", "1", "2", "3", "4", "5", "6", "7", "8", "9"}

Whitespace == {" ", "\t", "\n", "\r"}

is_whitespace(c) == c \in Whitespace

is_alphabetic(c) == c \in Letters

is_alphanumeric(c) == c \in Letters \cup Digits

is_digit(c) == c \in Digits

DigitVal(c) ==
    CASE c = "0" -> 0 [] c = "1" -> 1 [] c = "2" -> 2 [] c = "3" -> 3
      [] c = "4" -> 4 [] c = "5" -> 5 [] c = "6" -> 6 [] c = "7" -> 7
      [] c = "8" -> 8 [] c = "9" -> 9

(***************************************************************************)
(* f64 values of the literals the lexer can read: n / 10^e, normalised     *)
(* (no trailing zero in the fraction), so equal values are equal records.  *)
(***************************************************************************)
RECURSIVE Pow10(_)
Pow10(e) == IF e = 0 THEN 1 ELSE 10 * Pow10(e - 1)

Dec(n, e) == [n |-> n, e |-> e]

F64(i) == Dec(i, 0)

RECURSIVE ToNat(_)
ToNat(ds) ==
    IF ds = <<>> THEN 0
    ELSE 10 * ToNat(SubSeq(ds, 1, Len(ds) - 1)) + DigitVal(ds[Len(ds)])

RECURSIVE StripZeros(_)
StripZeros(ds) ==
    IF ds # <<>> /\ ds[Len(ds)] = "0"
    THEN StripZeros(SubSeq(ds, 1, Len(ds) - 1))
    ELSE ds

\* f64 comparison a < b
FLess(a, b) == a.n * Pow10(b.e) < b.n * Pow10(a.e)

\* Rust `number as i32` for the non-negative values the lexer produces:
\* truncation toward zero.
AsI32(a) == a.n \div Pow10(a.e)

\* str::parse::<f64>() on a string of digits and dots: Ok for at least one
\* digit and at most one dot ("1.", ".5" and "5" parse; ".", "1.2.3" do not).
ParseF64(num_str) ==
    LET dots == {i \in 1..Len(num_str) : num_str[i] = "."}
        digs == {i \in 1..Len(num_str) : is_digit(num_str[i])}
    IN  IF Cardinality(dots) > 1 \/ digs = {}
        THEN [ok |-> FALSE, val |-> Dec(0, 0)]
        ELSE LET dot  == IF dots = {} THEN Len(num_str) + 1
                         ELSE CHOOSE i \in dots : TRUE
                 int  == SubSeq(num_str, 1, dot - 1)
                 frac == StripZeros(SubSeq(num_str, dot + 1, Len(num_str)))
             IN  [ok |-> TRUE, val |-> Dec(ToNat(int \o frac), Len(frac))]

(***************************************************************************)
(* Tokens (lexer.rs, enum Token).                                          *)
(***************************************************************************)
Tok(t) == [t |-> t]

TokUndef == Tok("TokUndef")

TokEOF == Tok("TokEOF")

TokIdentifier(s) == [t |-> "TokIdentifier", s |-> s]

TokNumber(v) == [t |-> "TokNumber", v |-> v]

TokChar(c) == [t |-> "TokChar", c |-> c]

IsChar(tok, c) == tok.t = "TokChar" /\ tok.c = c

(***************************************************************************)
(* Panics.                                                                 *)
(***************************************************************************)
NoPanic == [msg |-> "", arg |-> ""]

Panicked(st) == st.panic.msg # ""

Panic(st, msg) ==
    IF Panicked(st) THEN st ELSE [st EXCEPT !.panic = [msg |-> msg, arg |-> ""]]

PanicArg(st, msg, arg) ==
    IF Panicked(st) THEN st ELSE [st EXCEPT !.panic = [msg |-> msg, arg |-> arg]]

GetcharPanic == "getchar: called Option::unwrap on a None value"

NumParsePanic == "get_token: called Result::unwrap on an Err value"

(***************************************************************************)
(* Lexer (lexer.rs).                                                       *)
(***************************************************************************)
\* libc::getchar() returns -1 at end of input; char::from_u32(0xFFFFFFFF) is
\* None and the unwrap panics.  at_eof records that the byte source has
\* reported the end of input.
getchar(st) ==
    IF Panicked(st) THEN st
    ELSE IF st.input = <<>>
    THEN Panic([st EXCEPT !.at_eof = TRUE], GetcharPanic)
    ELSE [st EXCEPT !.last_char = Head(st.input), !.input = Tail(st.input)]

RECURSIVE SkipWhitespace(_)
SkipWhitespace(st) ==
    IF Panicked(st) THEN st
    ELSE IF is_whitespace(st.last_char) \/ st.last_char = "\n"
    THEN SkipWhitespace(getchar(st))
    ELSE st

\* the loop of lines 51-54: returns the state and the identifier read
RECURSIVE ReadIdentifier(_, _)
ReadIdentifier(st, identifier_str) ==
    IF Panicked(st) THEN [st |-> st, str |-> identifier_str]
    ELSE IF is_alphanumeric(st.last_char)
    THEN ReadIdentifier(getchar(st), Append(identifier_str, st.last_char))
    ELSE [st |-> st, str |-> identifier_str]

RECURSIVE ReadNumber(_, _)
ReadNumber(st, num_str) ==
    IF Panicked(st) THEN [st |-> st, str |-> num_str]
    ELSE IF is_digit(st.last_char) \/ st.last_char = "."
    THEN ReadNumber(getchar(st), Append(num_str, st.last_char))
    ELSE [st |-> st, str |-> num_str]

RECURSIVE SkipComment(_)
SkipComment(st) ==
    IF Panicked(st) THEN st
    ELSE IF st.last_char # "\n" /\ st.last_char # "\r"
    THEN SkipComment(getchar(st))
    ELSE st

Keyword(identifier_str) ==
    CASE identifier_str = <<"d", "e", "f">> -> Tok("TokDef")
      [] identifier_str = <<"e", "x", "t", "e", "r", "n">> -> Tok("TokExtern")
      [] identifier_str = <<"i", "f">> -> Tok("TokIf")
      [] identifier_str = <<"t", "h", "e", "n">> -> Tok("TokThen")
      [] identifier_str = <<"e", "l", "s", "e">> -> Tok("TokElse")
      [] identifier_str = <<"f", "o", "r">> -> Tok("TokFor")
      [] identifier_str = <<"i", "n">> -> Tok("TokIn")
      [] identifier_str = <<"v", "a", "r">> -> Tok("TokVar")
      [] identifier_str = <<"b", "i", "n", "a", "r", "y">> -> Tok("TokBinary")
      [] identifier_str = <<"u", "n", "a", "r", "y">> -> Tok("TokUnary")
      [] identifier_str = <<"e", "x", "i", "t">> -> TokEOF
      [] OTHER -> TokIdentifier(identifier_str)

\* get_token returns the state after the call and the token.  A panic returns
\* no token (tok is TokUndef and the state is panicked).
LexResult(st, tok) ==
    IF Panicked(st) THEN [st |-> st, tok |-> TokUndef] ELSE [st |-> st, tok |-> tok]

\* lines 56-80
IdentifierToken(r) == LexResult(r.st, Keyword(r.str))

\* line 90: num_str.parse().unwrap()
NumberTokenOf(st, p) ==
    IF Panicked(st) THEN LexResult(st, TokUndef)
    ELSE IF ~p.ok THEN LexResult(Panic(st, NumParsePanic), TokUndef)
    ELSE LexResult(st, TokNumber(p.val))

NumberToken(r) == NumberTokenOf(r.st, ParseF64(r.str))

RECURSIVE get_token(_)
\* lines 47-107: after the whitespace is skipped
get_token_at(st) ==
    IF Panicked(st) THEN LexResult(st, TokUndef)
    ELSE IF is_alphabetic(st.last_char)
    THEN IdentifierToken(ReadIdentifier(getchar(st), <<st.last_char>>))
    ELSE IF is_digit(st.last_char) \/ st.last_char = "."
    THEN NumberToken(ReadNumber(st, <<>>))
    ELSE IF st.last_char = "#"
    THEN get_token(SkipComment(st))
    ELSE LexResult(getchar(st), TokChar(st.last_char))

get_token(st) == get_token_at(SkipWhitespace(st))

\* state.cur_tok = ...; `toks` is the history of the tokens the lexer returned
SetCurTok(r) ==
    IF Panicked(r.st) THEN r.st
    ELSE [r.st EXCEPT !.cur_tok = r.tok, !.toks = Append(@, r.tok)]

get_next_token(st) == IF Panicked(st) THEN st ELSE SetCurTok(get_token(st))

(***************************************************************************)
(* AST (ast.rs, enum AST, and the node constructors parser.rs calls).      *)
(***************************************************************************)
Null == [kind |-> "Null"]

Number(val) == [kind |-> "Number", val |-> val]

Variable(name) == [kind |-> "Variable", name |-> name]

Unary(op, operand) == [kind |-> "Unary", op |-> op, operand |-> operand]

Binary(op, lhs, rhs) == [kind |-> "Binary", op |-> op, lhs |-> lhs, rhs |-> rhs]

Call(callee, args) == [kind |-> "Call", callee |-> callee, args |-> args]

If(cond, then, els) == [kind |-> "If", cond |-> cond, then |-> then, els |-> els]

For(name, start, end, step, body) ==
    [kind |-> "For", name |-> name, start |-> start, end |-> end,
     step |-> step, body |-> body]

\* names: HashMap<String, AST>, a function from the names to the initializers
Var(names, body) == [kind |-> "Var", names |-> names, body |-> body]

Prototype(name, args, is_operator, precedence) ==
    [kind |-> "Prototype", name |-> name, args |-> args,
     is_operator |-> is_operator, precedence |-> precedence]

Function(proto, body) == [kind |-> "Function", proto |-> proto, body |-> body]

IsNull(ast) == ast.kind = "Null"

R(st, ast) == [st |-> st, ast |-> ast]

\* HashMap::insert
MapInsert(m, k, v) == [x \in DOMAIN m \cup {k} |-> IF x = k THEN v ELSE m[x]]

EmptyMap == [x \in {} |-> 0]

(***************************************************************************)
(* Parser (parser.rs).                                                     *)
(***************************************************************************)
get_tok_precedence(st) ==
    IF st.cur_tok.t # "TokChar" THEN -1
    ELSE IF st.cur_tok.c \in DOMAIN st.bin_op_precedence
    THEN st.bin_op_precedence[st.cur_tok.c]
    ELSE -1

\* a variant of the test of line 146 with the comparison reversed
BindsTighterMut(tok_prec, next_prec) == next_prec < tok_prec

\* line 146: the pending operator takes RHS when it binds more tightly
BindsTighter(tok_prec, next_prec) == tok_prec < next_prec

RECURSIVE parse_expression(_), parse_unary(_), parse_primary(_),
          parse_bin_op_rhs(_, _, _), parse_paren_expr(_),
          parse_identifier_expr(_), ParseCallArgs(_, _), parse_if_expr(_),
          parse_for_expr(_), parse_var_expr(_), ParseVarNames(_, _)

NumberOf(tok) == IF tok.t = "TokNumber" THEN Number(tok.v) ELSE Null

parse_number_expr(st) ==
    IF Panicked(st) THEN R(st, Null)
    ELSE R(get_next_token(st), NumberOf(st.cur_tok))

\* lines 42-53
paren_close(v) ==
    IF Panicked(v.st) THEN R(v.st, Null)
    ELSE IF IsNull(v.ast) THEN v
    ELSE IF ~IsChar(v.st.cur_tok, ")") THEN R(Panic(v.st, "Expected ')'"), Null)
    ELSE R(get_next_token(v.st), v.ast)

parse_paren_expr(st) ==
    IF Panicked(st) THEN R(st, Null)
    ELSE paren_close(parse_expression(get_next_token(st)))

Args(st, args) == [st |-> st, args |-> args]

\* lines 78-88: after one argument is parsed
call_args_next(arg, args) ==
    IF Panicked(arg.st) THEN Args(arg.st, args)
    ELSE IF IsChar(arg.st.cur_tok, ")") THEN Args(arg.st, Append(args, arg.ast))
    ELSE IF ~IsChar(arg.st.cur_tok, ",")
    THEN Args(Panic(arg.st, "Expected ')' or ',' in argument list"), args)
    ELSE ParseCallArgs(get_next_token(arg.st), Append(args, arg.ast))

\* the loop of lines 76-89
ParseCallArgs(st, args) ==
    IF Panicked(st) THEN Args(st, args)
    ELSE call_args_next(parse_expression(st), args)

\* lines 92-95
call_close(a, id_name) == R(get_next_token(a.st), Call(id_name, a.args))

\* lines 74-90
call_args(st, id_name) ==
    IF Panicked(st) THEN R(st, Null)
    ELSE IF IsChar(st.cur_tok, ")") THEN call_close(Args(st, <<>>), id_name)
    ELSE call_close(ParseCallArgs(st, <<>>), id_name)

\* lines 67-73
identifier_rest(st, id_name) ==
    IF Panicked(st) THEN R(st, Null)
    ELSE IF ~IsChar(st.cur_tok, "(") THEN R(st, Variable(id_name))
    ELSE call_args(get_next_token(st), id_name)

parse_identifier_expr(st) ==
    IF Panicked(st) THEN R(st, Null)
    ELSE IF st.cur_tok.t # "TokIdentifier" THEN R(st, Null)
    ELSE identifier_rest(get_next_token(st), st.cur_tok.s)

parse_primary(st) ==
    IF Panicked(st) THEN R(st, Null)
    ELSE IF IsChar(st.cur_tok, "(") THEN parse_paren_expr(st)
    ELSE IF st.cur_tok.t = "TokIdentifier" THEN parse_identifier_expr(st)
    ELSE IF st.cur_tok.t = "TokNumber" THEN parse_number_expr(st)
    ELSE IF st.cur_tok.t = "TokIf" THEN parse_if_expr(st)
    ELSE IF st.cur_tok.t = "TokFor" THEN parse_for_expr(st)
    ELSE IF st.cur_tok.t = "TokVar" THEN parse_var_expr(st)
    ELSE R(PanicArg(st, "Unknown token when expecting an expression.",
                    st.cur_tok.t), Null)

\* line 150, and the loop again
bin_op_merge(rhs, expr_prec, binop, lhs) ==
    IF Panicked(rhs.st) THEN R(rhs.st, Null)
    ELSE parse_bin_op_rhs(rhs.st, expr_prec, Binary(binop, lhs, rhs.ast))

\* lines 139-148: after the operand on the right of binop is parsed
bin_op_operand(rhs, expr_prec, tok_prec, binop, lhs) ==
    IF Panicked(rhs.st) \/ IsNull(rhs.ast) THEN R(rhs.st, Null)
    ELSE IF BindsTighter(tok_prec, get_tok_precedence(rhs.st))
    THEN bin_op_merge(parse_bin_op_rhs(rhs.st, tok_prec + 1, rhs.ast),
                      expr_prec, binop, lhs)
    ELSE bin_op_merge(rhs, expr_prec, binop, lhs)

parse_bin_op_rhs(st, expr_prec, lhs) ==
    IF Panicked(st) THEN R(st, Null)
    ELSE IF get_tok_precedence(st) < expr_prec THEN R(st, lhs)
    ELSE IF st.cur_tok.t # "TokChar" THEN R(st, Null)
    ELSE bin_op_operand(parse_unary(get_next_token(st)), expr_prec,
                        get_tok_precedence(st), st.cur_tok.c, lhs)

\* lines 156-160
expression_rest(lhs) ==
    IF Panicked(lhs.st) THEN R(lhs.st, Null)
    ELSE IF IsNull(lhs.ast) THEN lhs
    ELSE parse_bin_op_rhs(lhs.st, 0, lhs.ast)

parse_expression(st) == expression_rest(parse_unary(st))

\* line 177
unary_make(operand, this_char) ==
    IF Panicked(operand.st) THEN R(operand.st, Null)
    ELSE R(operand.st, Unary(this_char, operand.ast))

parse_unary(st) ==
    IF Panicked(st) THEN R(st, Null)
    ELSE IF st.cur_tok.t # "TokChar" THEN parse_primary(st)
    ELSE IF st.cur_tok.c = "(" \/ st.cur_tok.c = ")" THEN parse_primary(st)
    ELSE unary_make(parse_unary(get_next_token(st)), st.cur_tok.c)

Names(st, names) == [st |-> st, names |-> names]

\* the loop of lines 244-249
RECURSIVE ReadArgNames(_, _)
ReadArgNames(st, arg_names) ==
    IF Panicked(st) THEN Names(st, arg_names)
    ELSE IF st.cur_tok.t = "TokIdentifier"
    THEN ReadArgNames(get_next_token(st), Append(arg_names, st.cur_tok.s))
    ELSE Names(st, arg_names)

\* lines 256-268
prototype_make(st, fn_name, kind, binary_precedence, arg_names) ==
    IF Panicked(st) THEN R(st, Null)
    ELSE IF kind # 0 /\ Len(arg_names) # kind
    THEN R(Panic(st, "Invalid number of operands for operator"), Null)
    ELSE R(st, Prototype(fn_name, arg_names, kind # 0, binary_precedence))

\* lines 251-256
prototype_close(a, fn_name, kind, binary_precedence) ==
    IF Panicked(a.st) THEN R(a.st, Null)
    ELSE IF ~IsChar(a.st.cur_tok, ")")
    THEN R(Panic(a.st, "Expected ')' in prototype"), Null)
    ELSE prototype_make(get_next_token(a.st), fn_name, kind, binary_precedence,
                        a.names)

\* lines 237-249
prototype_args(st, fn_name, kind, binary_precedence) ==
    IF Panicked(st) THEN R(st, Null)
    ELSE IF ~IsChar(st.cur_tok, "(")
    THEN R(Panic(st, "Expected '(' in prototype"), Null)
    ELSE prototype_close(ReadArgNames(get_next_token(st), <<>>), fn_name, kind,
                         binary_precedence)

\* lines 211-218: read the precedence if present
prototype_precedence(st, fn_name) ==
    IF Panicked(st) THEN R(st, Null)
    ELSE IF st.cur_tok.t # "TokNumber" THEN prototype_args(st, fn_name, 2, 30)
    ELSE IF FLess(st.cur_tok.v, F64(1)) \/ FLess(F64(100), st.cur_tok.v)
    THEN R(Panic(st, "Invalid precedence: must be 1..100"), Null)
    ELSE prototype_args(get_next_token(st), fn_name, 2, AsI32(st.cur_tok.v))

BinaryPrefix == <<"b", "i", "n", "a", "r", "y">>

UnaryPrefix == <<"u", "n", "a", "r", "y">>

\* lines 198-209; every character of the model's alphabet is ASCII
prototype_binary(st) ==
    IF Panicked(st) THEN R(st, Null)
    ELSE IF st.cur_tok.t # "TokChar"
    THEN R(Panic(st, "Expected binary operator"), Null)
    ELSE prototype_precedence(get_next_token(st), Append(BinaryPrefix, st.cur_tok.c))

\* lines 221-232
prototype_unary(st) ==
    IF Panicked(st) THEN R(st, Null)
    ELSE IF st.cur_tok.t # "TokChar"
    THEN R(Panic(st, "Expected binary operator"), Null)
    ELSE prototype_args(get_next_token(st), Append(UnaryPrefix, st.cur_tok.c), 1, 30)

parse_prototype(st) ==
    IF Panicked(st) THEN R(st, Null)
    ELSE IF st.cur_tok.t = "TokIdentifier"
    THEN prototype_args(get_next_token(st), st.cur_tok.s, 0, 30)
    ELSE IF st.cur_tok.t = "TokBinary" THEN prototype_binary(get_next_token(st))
    ELSE IF st.cur_tok.t = "TokUnary" THEN prototype_unary(get_next_token(st))
    ELSE R(Panic(st, "Expected function name in prototype"), Null)

\* line 318
if_make(els, cond, then) ==
    IF Panicked(els.st) THEN R(els.st, Null)
    ELSE R(els.st, If(cond, then, els.ast))

\* lines 310-316
if_else(then, cond) ==
    IF Panicked(then.st) THEN R(then.st, Null)
    ELSE IF then.st.cur_tok.t # "TokElse"
    THEN R(Panic(then.st, "Expected 'else' in if expression"), Null)
    ELSE if_make(parse_expression(get_next_token(then.st)), cond, then.ast)

\* lines 302-308
if_then(cond) ==
    IF Panicked(cond.st) THEN R(cond.st, Null)
    ELSE IF cond.st.cur_tok.t # "TokThen"
    THEN R(Panic(cond.st, "Expected 'then' in if expression"), Null)
    ELSE if_else(parse_expression(get_next_token(cond.st)), cond.ast)

parse_if_expr(st) ==
    IF Panicked(st) THEN R(st, Null)
    ELSE if_then(parse_expression(get_next_token(st)))

\* line 358
for_make(body, id_name, start, end, step) ==
    IF Panicked(body.st) THEN R(body.st, Null)
    ELSE R(body.st, For(id_name, start, end, step, body.ast))

\* lines 351-356
for_in(step, id_name, start, end) ==
    IF Panicked(step.st) THEN R(step.st, Null)
    ELSE IF step.st.cur_tok.t # "TokIn"
    THEN R(Panic(step.st, "Expected 'in' after for"), Null)
    ELSE for_make(parse_expression(get_next_token(step.st)), id_name, start, end,
                  step.ast)

\* lines 344-349: the step value is optional
for_step(end, id_name, start) ==
    IF Panicked(end.st) THEN R(end.st, Null)
    ELSE IF IsChar(end.st.cur_tok, ",")
    THEN for_in(parse_expression(get_next_token(end.st)), id_name, start, end.ast)
    ELSE for_in(R(end.st, Null), id_name, start, end.ast)

\* lines 337-342
for_end(start, id_name) ==
    IF Panicked(start.st) THEN R(start.st, Null)
    ELSE IF ~IsChar(start.st.cur_tok, ",")
    THEN R(Panic(start.st, "Expected ',' after for start value"), Null)
    ELSE for_step(parse_expression(get_next_token(start.st)), id_name, start.ast)

\* lines 331-336
for_start(st, id_name) ==
    IF Panicked(st) THEN R(st, Null)
    ELSE IF ~IsChar(st.cur_tok, "=") THEN R(Panic(st, "Expected '=' after for"), Null)
    ELSE for_end(parse_expression(get_next_token(st)), id_name)

\* lines 325-329
for_name(st) ==
    IF Panicked(st) THEN R(st, Null)
    ELSE IF st.cur_tok.t # "TokIdentifier" THEN R(st, Null)
    ELSE for_start(get_next_token(st), st.cur_tok.s)

parse_for_expr(st) ==
    IF Panicked(st) THEN R(st, Null) ELSE for_name(get_next_token(st))

VarNames(st, names, null) == [st |-> st, names |-> names, null |-> null]

\* lines 395-400
var_next_name(st, names) ==
    IF Panicked(st) THEN VarNames(st, names, FALSE)
    ELSE IF st.cur_tok.t # "TokIdentifier"
    THEN VarNames(Panic(st, "expected identifier list after var"), names, FALSE)
    ELSE ParseVarNames(st, names)

\* lines 388-393: names.insert(id_name, init)
var_insert(init, id_name, names) ==
    IF Panicked(init.st) THEN VarNames(init.st, names, FALSE)
    ELSE IF ~IsChar(init.st.cur_tok, ",")
    THEN VarNames(init.st, MapInsert(names, id_name, init.ast), FALSE)
    ELSE var_next_name(get_next_token(init.st),
                       MapInsert(names, id_name, init.ast))

\* lines 381-386: the initializer is optional
var_init(st, id_name, names) ==
    IF Panicked(st) THEN VarNames(st, names, FALSE)
    ELSE IF IsChar(st.cur_tok, "=")
    THEN var_insert(parse_expression(get_next_token(st)), id_name, names)
    ELSE var_insert(R(st, Null), id_name, names)

\* the loop of lines 374-401: names is the HashMap built so far; null is the
\* `return AST::Null` of line 377
ParseVarNames(st, names) ==
    IF Panicked(st) THEN VarNames(st, names, FALSE)
    ELSE IF st.cur_tok.t # "TokIdentifier" THEN VarNames(st, names, TRUE)
    ELSE var_init(get_next_token(st), st.cur_tok.s, names)

\* line 411
var_make(body, names) ==
    IF Panicked(body.st) THEN R(body.st, Null)
    ELSE R(body.st, Var(names, body.ast))

\* lines 403-409
var_in(v) ==
    IF Panicked(v.st) THEN R(v.st, Null)
    ELSE IF v.null THEN R(v.st, Null)
    ELSE IF v.st.cur_tok.t # "TokIn"
    THEN R(Panic(v.st, "expected 'in' keyword after 'var'"), Null)
    ELSE var_make(parse_expression(get_next_token(v.st)), v.names)

\* lines 366-401
var_names(st) ==
    IF Panicked(st) THEN R(st, Null)
    ELSE IF st.cur_tok.t # "TokIdentifier"
    THEN R(Panic(st, "expected identifier after var"), Null)
    ELSE var_in(ParseVarNames(st, EmptyMap))

parse_var_expr(st) ==
    IF Panicked(st) THEN R(st, Null) ELSE var_names(get_next_token(st))

\* FunctionAST::new (ast.rs): the two assertions.  The panic records the kind
\* of the node the failed assertion looked at.
FunctionAST_new(st, proto, body) ==
    IF Panicked(st) THEN R(st, Null)
    ELSE IF proto.kind # "Prototype"
    THEN R(PanicArg(st, "assertion failed: proto is a Prototype", proto.kind), Null)
    ELSE IF body.kind \notin {"Number", "Variable", "Binary", "Call", "If", "For"}
    THEN R(PanicArg(st, "assertion failed: body is an ExprAST", body.kind), Null)
    ELSE R(st, Function(proto, body))

\* line 277
definition_make(body, proto) == FunctionAST_new(body.st, proto, body.ast)

\* line 275
definition_body(proto) == definition_make(parse_expression(proto.st), proto.ast)

\* definition ::= 'def' prototype expression
parse_definition(st) == definition_body(parse_prototype(get_next_token(st)))

AnonName == <<"a", "n", "o", "n">>

\* toplevelexpr ::= expression
parse_top_level_expr(st) ==
    definition_make(parse_expression(st), Prototype(AnonName, <<>>, FALSE, 0))

\* external ::= 'extern' prototype
parse_extern(st) == parse_prototype(get_next_token(st))

(***************************************************************************)
(* The IR the lowering builds (the inkwell/LLVM objects ast.rs drives).    *)
(* A module is the sequence of its functions in creation order; a function *)
(* has its parameter names and its basic blocks in layout order; a block   *)
(* has an id, a label and its instructions.  A value is the instruction    *)
(* (or constant, or parameter) that computes it.  The builder's position   *)
(* is a function index and a block id; it always inserts at the end of     *)
(* that block (position_at_end).                                           *)
(***************************************************************************)
Ins(id, op, name, args) == [id |-> id, op |-> op, name |-> name, args |-> args]

NoVal == Ins(0, "none", "", <<>>)

Const(v) == Ins(0, "const", "", <<v>>)

V(st, val) == [st |-> st, val |-> val]

Terminators == {"br", "condbr", "ret"}

\* Module::get_function: the index of the function named `name`, 0 if none
FindFunction(module, name) ==
    IF \E i \in 1..Len(module) : module[i].name = name
    THEN CHOOSE i \in 1..Len(module) : module[i].name = name
    ELSE 0

Suffixed(name, k) ==
    IF k = 0 THEN name
    ELSE name \o <<".">> \o <<CHOOSE d \in Digits : DigitVal(d) = k>>

\* LLVM makes the name of a new global unique in its module: name, name.1, ...
RECURSIVE UniqueName(_, _, _)
UniqueName(module, name, k) ==
    IF FindFunction(module, Suffixed(name, k)) = 0 \/ k = 9
    THEN Suffixed(name, k)
    ELSE UniqueName(module, name, k + 1)

\* the position of the block `bb` in the layout of function f
BlockIndex(st, f, bb) ==
    CHOOSE i \in 1..Len(st.module[f].blocks) : st.module[f].blocks[i].id = bb

\* Context::append_basic_block
append_basic_block(st, f, label) ==
    IF Panicked(st) THEN [st |-> st, bb |-> 0]
    ELSE [st |-> [st EXCEPT !.module[f].next_id = @ + 1,
                            !.module[f].blocks =
                                Append(@, [id |-> st.module[f].next_id,
                                           label |-> label, instrs |-> <<>>])],
          bb |-> st.module[f].next_id]

InsertAfter(rest, this, after) ==
    SubSeq(rest, 1, CHOOSE i \in 1..Len(rest) : rest[i].id = after)
    \o <<this>>
    \o SubSeq(rest, (CHOOSE i \in 1..Len(rest) : rest[i].id = after) + 1, Len(rest))

\* BasicBlock::move_after
move_after(st, f, bb, after) ==
    IF Panicked(st) THEN st
    ELSE [st EXCEPT !.module[f].blocks =
             InsertAfter(SelectSeq(@, LAMBDA b : b.id # bb),
                         @[BlockIndex(st, f, bb)], after)]

\* Builder::position_at_end
position_at_end(st, f, bb) ==
    IF Panicked(st) THEN st ELSE [st EXCEPT !.builder = [fn |-> f, bb |-> bb]]

\* insert an instruction with a fresh id at the end of block bb of function f
InsertAtEnd(st, f, bb, op, name, args) ==
    V([st EXCEPT !.module[f].next_id = @ + 1,
                 !.module[f].blocks[BlockIndex(st, f, bb)].instrs =
                     Append(@, Ins(st.module[f].next_id, op, name, args))],
      Ins(st.module[f].next_id, op, name, args))

\* Builder::build_*: a new instruction at the builder's position
Build(st, op, name, args) ==
    IF Panicked(st) THEN V(st, NoVal)
    ELSE InsertAtEnd(st, st.builder.fn, st.builder.bb, op, name, args)

\* create_entry_block_alloca (ast.rs): a second builder, positioned at the
\* END of the function's first block, builds the alloca
create_entry_block_alloca(st, func_value, name) ==
    IF Panicked(st) THEN V(st, NoVal)
    ELSE IF st.module[func_value].blocks = <<>>
    THEN V(Panic(st, "get_first_basic_block: unwrap on None"), NoVal)
    ELSE InsertAtEnd(st, func_value, st.module[func_value].blocks[1].id,
                     "alloca", name, <<>>)

Fn(st, fn) == [st |-> st, fn |-> fn]

\* PrototypeAST::codegen: Module::add_function; the value is the function index
PrototypeAST_codegen(st, proto) ==
    IF Panicked(st) THEN Fn(st, 0)
    ELSE Fn([st EXCEPT !.module = Append(@,
                [name    |-> UniqueName(st.module, proto.name, 0),
                 params  |-> proto.args,
                 blocks  |-> <<>>,
                 next_id |-> 1])],
            Len(st.module) + 1)

\* a variant of get_function that consults the registry before the module
get_functionMut(st, name) ==
    IF Panicked(st) THEN Fn(st, 0)
    ELSE IF name \in DOMAIN st.function_protos
    THEN PrototypeAST_codegen(st, st.function_protos[name])
    ELSE IF FindFunction(st.module, name) # 0
    THEN Fn(st, FindFunction(st.module, name))
    ELSE Fn(PanicArg(st, "get_function failure. Could not find key", name), 0)

\* get_function (ast.rs)
get_function(st, name) ==
    IF Panicked(st) THEN Fn(st, 0)
    ELSE IF FindFunction(st.module, name) # 0
    THEN Fn(st, FindFunction(st.module, name))
    ELSE IF name \in DOMAIN st.function_protos
    THEN PrototypeAST_codegen(st, st.function_protos[name])
    ELSE Fn(PanicArg(st, "get_function failure. Could not find key", name), 0)

\* line 274: the step of a `for` without a step expression
DefaultStep == F64(0)

UnsupportedOp ==
    "BinaryExprAST code generation failure. The operation is not supported"

\* lines 98-102
BuildCompare(l) == Build(l.st, "uitofp", "booltmp", <<l.val>>)

\* BinaryExprAST::codegen, lines 93-108: the instruction for an operator
BuildBinary(st, op, lhs, rhs) ==
    CASE op = "+" -> Build(st, "fadd", "addtmp", <<lhs, rhs>>)
      [] op = "-" -> Build(st, "fsub", "subtmp", <<lhs, rhs>>)
      [] op = "*" -> Build(st, "fmul", "multmp", <<lhs, rhs>>)
      [] op = "<" -> BuildCompare(Build(st, "fcmp ult", "cmptmp", <<lhs, rhs>>))
      [] OTHER -> V(PanicArg(st, UnsupportedOp, op), NoVal)

RECURSIVE codegen(_, _), CodegenArgs(_, _, _)

NumberExprAST_codegen(st, n) == V(st, Const(n.val))

VariableExprAST_codegen(st, n) ==
    IF n.name \in DOMAIN st.named_values
    THEN Build(st, "load", n.name, <<st.named_values[n.name]>>)
    ELSE V(Panic(st, "VariableExprAST code generation failure. Could not find key"),
           NoVal)

\* lines 84-87
assign_store(val, name) ==
    IF Panicked(val.st) THEN V(val.st, NoVal)
    ELSE IF name \notin DOMAIN val.st.named_values
    THEN V(Panic(val.st, "named_values.get: unwrap on None"), NoVal)
    ELSE V(Build(val.st, "store", "", <<val.st.named_values[name], val.val>>).st,
           val.val)

\* lines 93-108
binary_build(rhs, op, lhs) == BuildBinary(rhs.st, op, lhs, rhs.val)

\* line 91
binary_rhs(lhs, n) == binary_build(codegen(lhs.st, n.rhs), n.op, lhs.val)

BinaryExprAST_codegen(st, n) ==
    IF n.op = "="
    THEN IF n.lhs.kind # "Variable"
         THEN V(Panic(st, "destination of '=' must be a variable"), NoVal)
         ELSE assign_store(codegen(st, n.rhs), n.lhs.name)
    ELSE binary_rhs(codegen(st, n.lhs), n)

Vals(st, vals) == [st |-> st, vals |-> vals]

args_push(a, args, args_v) == CodegenArgs(a.st, args, Append(args_v, a.val))

\* the loop of lines 131-133
CodegenArgs(st, args, args_v) ==
    IF Panicked(st) \/ args = <<>> THEN Vals(st, args_v)
    ELSE args_push(codegen(st, Head(args)), Tail(args), args_v)

\* lines 135-142
call_build(a, callee) == Build(a.st, "call", "calltmp", <<callee, a.vals>>)

\* lines 126-133
call_check(func_val, n) ==
    IF Panicked(func_val.st) THEN V(func_val.st, NoVal)
    ELSE IF Len(func_val.st.module[func_val.fn].params) # Len(n.args)
    THEN V(Panic(func_val.st,
                 "CallExprAST code generation failure. Incorrect # of arguments passed."),
           NoVal)
    ELSE call_build(CodegenArgs(func_val.st, n.args, <<>>),
                    func_val.st.module[func_val.fn].name)

CallExprAST_codegen(st, n) == call_check(get_function(st, n.callee), n)

\* lines 204-212: the merge block and the phi
if_merge(st, f, b, thenv, then_end, elsev) ==
    IF Panicked(st) THEN V(st, NoVal)
    ELSE Build(position_at_end(move_after(st, f, b.merge, st.builder.bb),
                               f, b.merge),
               "phi", "iftmp", <<thenv, then_end, elsev, st.builder.bb>>)

\* lines 199-201
if_else_end(elsev, f, b, thenv, then_end) ==
    if_merge(Build(elsev.st, "br", "", <<b.merge>>).st, f, b, thenv, then_end,
             elsev.val)

\* lines 193-198: then_bb is re-read from the builder; emit the else block
if_else_arm(st, n, f, b, thenv) ==
    IF Panicked(st) THEN V(st, NoVal)
    ELSE if_else_end(
             codegen(position_at_end(move_after(st, f, b.els, st.builder.bb),
                                     f, b.els), n.els),
             f, b, thenv, st.builder.bb)

\* line 191
if_then_end(thenv, n, f, b) ==
    if_else_arm(Build(thenv.st, "br", "", <<b.merge>>).st, n, f, b, thenv.val)

\* lines 184-190: the conditional branch, then the then block
if_then_arm(st, condv_out, n, f, b) ==
    if_then_end(
        codegen(position_at_end(
                    Build(st, "condbr", "", <<condv_out, b.then, b.els>>).st,
                    f, b.then), n.then),
        n, f, b)

\* lines 180-182: three blocks appended to the function, with consecutive ids
if_blocks(condv_out, n, f) ==
    IF Panicked(condv_out.st) THEN V(condv_out.st, NoVal)
    ELSE if_then_arm(
             append_basic_block(
                 append_basic_block(
                     append_basic_block(condv_out.st, f, "then").st,
                     f, "else").st,
                 f, "ifcont").st,
             condv_out.val, n, f,
             [then  |-> condv_out.st.module[f].next_id,
              els   |-> condv_out.st.module[f].next_id + 1,
              merge |-> condv_out.st.module[f].next_id + 2])

\* lines 166-176
if_cond(condv) ==
    Build(condv.st, "fcmp one", "ifcond", <<condv.val, Const(F64(0))>>)

IfExprAST_codegen(st, n) ==
    IF Panicked(st) THEN V(st, NoVal)
    ELSE if_blocks(if_cond(codegen(st, n.cond)), n, st.builder.fn)

\* a variant of for_restore that always removes the name
for_restoreMut(st, n, old) ==
    IF Panicked(st) THEN V(st, NoVal)
    ELSE V([st EXCEPT !.named_values = [x \in DOMAIN @ \ {n.name} |-> @[x]]],
           Const(F64(0)))

\* lines 309-317: restore the unshadowed variable
for_restore(st, n, old) ==
    IF Panicked(st) THEN V(st, NoVal)
    ELSE V([st EXCEPT !.named_values =
               IF old.some THEN MapInsert(@, n.name, old.val)
               ELSE [x \in DOMAIN @ \ {n.name} |-> @[x]]],
           Const(F64(0)))

\* lines 301-307
for_branch(after_bb, end_cond_val, n, f, loop_bb, old) ==
    for_restore(
        position_at_end(
            Build(after_bb.st, "condbr", "",
                  <<end_cond_val, loop_bb, after_bb.bb>>).st,
            f, after_bb.bb),
        n, old)

\* line 299
for_after(end_cond_val, n, f, loop_bb, old) ==
    for_branch(append_basic_block(end_cond_val.st, f, "afterloop"),
               end_cond_val.val, n, f, loop_bb, old)

\* lines 288-296
for_loopcond(next_var, alloca, end_cond, n, f, loop_bb, old) ==
    for_after(
        Build(Build(next_var.st, "store", "", <<alloca, next_var.val>>).st,
              "fcmp one", "loopcond", <<end_cond, Const(F64(0))>>),
        n, f, loop_bb, old)

\* lines 283-287
for_nextvar(cur_var, alloca, step_val, end_cond, n, f, loop_bb, old) ==
    for_loopcond(
        Build(cur_var.st, "fadd", "nextvar", <<cur_var.val, step_val>>),
        alloca, end_cond, n, f, loop_bb, old)

\* line 282
for_reload(end_cond, alloca, step_val, n, f, loop_bb, old) ==
    for_nextvar(Build(end_cond.st, "load", n.name, <<alloca>>),
                alloca, step_val, end_cond.val, n, f, loop_bb, old)

\* line 278: the end condition
for_end_cond(step_val, alloca, n, f, loop_bb, old) ==
    for_reload(codegen(step_val.st, n.end), alloca, step_val.val, n, f,
               loop_bb, old)

\* lines 268-275: the step value
for_step_val(body, alloca, n, f, loop_bb, old) ==
    IF ~IsNull(n.step)
    THEN for_end_cond(codegen(body.st, n.step), alloca, n, f, loop_bb, old)
    ELSE for_end_cond(V(body.st, Const(DefaultStep)), alloca, n, f, loop_bb, old)

\* lines 262-266: shadow the variable, emit the body
for_loop_body(st, alloca, n, f, loop_bb) ==
    IF Panicked(st) THEN V(st, NoVal)
    ELSE for_step_val(
             codegen([st EXCEPT !.named_values = MapInsert(@, n.name, alloca)],
                     n.body),
             alloca, n, f, loop_bb,
             IF n.name \in DOMAIN st.named_values
             THEN [some |-> TRUE, val |-> st.named_values[n.name]]
             ELSE [some |-> FALSE, val |-> NoVal])

\* lines 255-258
for_enter(loop_bb, alloca, n, f) ==
    for_loop_body(
        position_at_end(Build(loop_bb.st, "br", "", <<loop_bb.bb>>).st,
                        f, loop_bb.bb),
        alloca, n, f, loop_bb.bb)

\* lines 247-252
for_store_start(start_val, alloca, n, f) ==
    for_enter(
        append_basic_block(
            Build(start_val.st, "store", "", <<alloca, start_val.val>>).st,
            f, "loop"),
        alloca, n, f)

\* line 244: the start code, without the variable in scope
for_start_val(alloca, n, f) ==
    for_store_start(codegen(alloca.st, n.start), alloca.val, n, f)

ForExprAST_codegen(st, n) ==
    IF Panicked(st) THEN V(st, NoVal)
    ELSE for_start_val(create_entry_block_alloca(st, st.builder.fn, n.name),
                       n, st.builder.fn)

\* FunctionValue::verify, as far as the lowering can break it: every block
\* ends in a terminator and has none before its end
VerifyFunction(fn) ==
    \A i \in 1..Len(fn.blocks) :
        /\ fn.blocks[i].instrs # <<>>
        /\ \A k \in 1..Len(fn.blocks[i].instrs) :
              (fn.blocks[i].instrs[k].op \in Terminators)
                  <=> (k = Len(fn.blocks[i].instrs))

RECURSIVE StoreParams(_, _, _)
\* lines 419-422
param_store(alloca, func_value, i) ==
    IF Panicked(alloca.st) THEN alloca.st
    ELSE StoreParams(
             [Build(alloca.st, "store", "",
                    <<alloca.val, Ins(0, "param", alloca.val.name, <<i>>)>>).st
                 EXCEPT !.named_values = MapInsert(@, alloca.val.name, alloca.val)],
             func_value, i + 1)

\* the loop of lines 412-423
StoreParams(st, func_value, i) ==
    IF Panicked(st) \/ i > Len(st.module[func_value].params) THEN st
    ELSE param_store(
             create_entry_block_alloca(st, func_value,
                                       st.module[func_value].params[i]),
             func_value, i)

\* lines 428-435.  The passes of fpm.run_on rewrite the verified function
\* inside the IR library and are not followed here: the module keeps the
\* instructions as the lowering emitted them.
function_verify(st, f) ==
    IF Panicked(st) THEN V(st, NoVal)
    ELSE IF ~VerifyFunction(st.module[f])
    THEN V(Panic(st, "FunctionAST code generation failure. LLVM could not verify function."),
           NoVal)
    ELSE V(st, Ins(0, "function", st.module[f].name, <<f>>))

\* line 426
function_return(retval, f) ==
    function_verify(Build(retval.st, "ret", "", <<retval.val>>).st, f)

\* lines 411-425
function_body(st, n, f) ==
    function_return(codegen(StoreParams(st, f, 1), n.body), f)

\* lines 407-411
function_entry(basic_block, n, f) ==
    IF Panicked(basic_block.st) THEN V(basic_block.st, NoVal)
    ELSE function_body(
             [position_at_end(basic_block.st, f, basic_block.bb)
                 EXCEPT !.named_values = EmptyMap],
             n, f)

\* lines 404-407
function_start(func_value, n) ==
    IF Panicked(func_value.st) THEN V(func_value.st, NoVal)
    ELSE function_entry(append_basic_block(func_value.st, func_value.fn, "entry"),
                        n, func_value.fn)

FunctionAST_codegen(st, n) ==
    IF n.proto.kind # "Prototype"
    THEN V(Panic(st, "FunctionAST code generation failure, expected a ProtoTypeAST for proto field."),
           NoVal)
    ELSE function_start(
             get_function([st EXCEPT !.function_protos =
                              MapInsert(@, n.proto.name, n.proto)],
                          n.proto.name),
             n)

\* the value of PrototypeAST::codegen as an AnyValueEnum
prototype_value(p, name) == V(p.st, Ins(0, "function", name, <<p.fn>>))

\* codegen (ast.rs): the general dispatch
codegen(st, n) ==
    IF Panicked(st) THEN V(st, NoVal)
    ELSE CASE n.kind = "Number"    -> NumberExprAST_codegen(st, n)
           [] n.kind = "Variable"  -> VariableExprAST_codegen(st, n)
           [] n.kind = "Binary"    -> BinaryExprAST_codegen(st, n)
           [] n.kind = "Call"      -> CallExprAST_codegen(st, n)
           [] n.kind = "Function"  -> FunctionAST_codegen(st, n)
           [] n.kind = "Prototype" ->
                prototype_value(PrototypeAST_codegen(st, n), n.name)
           [] n.kind = "If"        -> IfExprAST_codegen(st, n)
           [] n.kind = "For"       -> ForExprAST_codegen(st, n)
           [] OTHER ->
                V(PanicArg(st, "General code generation failure. Could not find key",
                           n.kind), NoVal)

(***************************************************************************)
(* Driver handlers (parser.rs).  Each returns the state after the call,    *)
(* the node it parsed and what it JIT-invoked.                             *)
(***************************************************************************)
H(st, ast, out) == [st |-> st, ast |-> ast, out |-> out]

NoOut == [called |-> FALSE]

\* lines 418-423
definition_emit(n) ==
    IF Panicked(n.st) THEN H(n.st, Null, NoOut)
    ELSE IF IsNull(n.ast) THEN H(get_next_token(n.st), n.ast, NoOut)
    ELSE H(codegen(n.st, n.ast).st, n.ast, NoOut)

handle_definition(st) == definition_emit(parse_definition(st))

\* lines 435-443: register the prototype
extern_register(st, proto) ==
    IF Panicked(st) THEN H(st, proto, NoOut)
    ELSE H([st EXCEPT !.function_protos = MapInsert(@, proto.name, proto)],
           proto, NoOut)

\* lines 429-434
extern_emit(n) ==
    IF Panicked(n.st) THEN H(n.st, Null, NoOut)
    ELSE IF IsNull(n.ast) THEN H(get_next_token(n.st), n.ast, NoOut)
    ELSE extern_register(codegen(n.st, n.ast).st, n.ast)

handle_extern(st) == extern_emit(parse_extern(st))

\* lines 456-468: the engine resolves "anon" in the current module and calls
\* it (`out` is the function it ran); then the module is put back
expression_run(st, ast, temp_module) ==
    IF Panicked(st) THEN H(st, ast, NoOut)
    ELSE IF FindFunction(st.module, AnonName) = 0
    THEN H(Panic(st, "ee.get_function: unwrap on Err"), ast, NoOut)
    ELSE H([st EXCEPT !.module = temp_module], ast,
           [called |-> TRUE, fn |-> st.module[FindFunction(st.module, AnonName)]])

\* lines 451-453 and 468
expression_skip(st, ast, temp_module) ==
    IF Panicked(st) THEN H(st, ast, NoOut)
    ELSE H([st EXCEPT !.module = temp_module], ast, NoOut)

\* lines 451-468
expression_emit(n, temp_module) ==
    IF Panicked(n.st) THEN H(n.st, Null, NoOut)
    ELSE IF IsNull(n.ast)
    THEN expression_skip(get_next_token(n.st), n.ast, temp_module)
    ELSE expression_run(codegen(n.st, n.ast).st, n.ast, temp_module)

handle_top_level_expression(st) ==
    expression_emit(parse_top_level_expr(st), st.module)

(***************************************************************************)
(* State::new (main.rs), with the standard input the process will read.    *)
(* The State of main.rs has no precedence table and no prototype registry, *)
(* the fields parser.rs and ast.rs use: their initial contents are the     *)
(* seeds the specification documents.                                      *)
(***************************************************************************)
SeedPrecedence ==
    [c \in {"=", "<", "+", "-", "*"} |->
        CASE c = "=" -> 2 [] c = "<" -> 10 [] c = "+" -> 20 [] c = "-" -> 20
          [] c = "*" -> 40]

NewState(input) ==
    [ cur_tok   |-> TokUndef,
      last_char |-> " ",
      input     |-> input,
      toks      |-> <<>>,
      at_eof    |-> FALSE,
      panic     |-> NoPanic,
      bin_op_precedence |-> SeedPrecedence,
      function_protos   |-> EmptyMap,
      module       |-> <<>>,
      builder      |-> [fn |-> 0, bb |-> 0],
      named_values |-> EmptyMap ]

(***************************************************************************)
(* SpecLex: the lexer alone, called repeatedly on every character sequence *)
(* of at most MaxLexLen characters.                                        *)
(***************************************************************************)
LexAlphabet == {"a", "7", ".", " ", "#", "\n", "+"}

RECURSIVE SeqsUpTo(_, _)
SeqsUpTo(S, n) ==
    IF n = 0 THEN {<<>>}
    ELSE LET shorter == SeqsUpTo(S, n - 1)
         IN  shorter \cup {Append(s, c) : s \in shorter, c \in S}

InitLex ==
    /\ \E input \in SeqsUpTo(LexAlphabet, MaxLexLen) :
          /\ state = NewState(input)
          /\ given = input
    /\ pc = "lex"
    /\ node = Null
    /\ log = <<>>

LexToken ==
    /\ pc = "lex"
    /\ state' = get_next_token(state)
    /\ pc' = IF Panicked(state') THEN "panicked" ELSE "lex"
    /\ UNCHANGED <<node, log, given>>

NextLex == LexToken

SpecLex == InitLex /\ [][NextLex]_vars

(***************************************************************************)
(* Spec: the whole program on a standard input made of top-level items.    *)
(* main primes the lexer, main_loop fetches a token and dispatches on it;  *)
(* the first dispatch (lines 475-481) has no EOF arm.                      *)
(***************************************************************************)
MaxItems == 2

Items ==
    { <<>>,
      \* def f(x) x+1
      <<"d", "e", "f", " ", "f", "(", "x", ")", " ", "x", "+", "1">>,
      \* def binary : 1 (x y) y
      <<"d", "e", "f", " ", "b", "i", "n", "a", "r", "y", " ", ":", " ", "1", " ", "(", "x", " ", "y", ")", " ", "y">>,
      \* extern g(x)
      <<"e", "x", "t", "e", "r", "n", " ", "g", "(", "x", ")">>,
      \* f(2)
      <<"f", "(", "2", ")">>,
      \* 1 : 2
      <<"1", " ", ":", " ", "2">>,
      \* def h(n) for i = 1, i < n in i
      <<"d", "e", "f", " ", "h", "(", "n", ")", " ", "f", "o", "r", " ", "i", " ", "=", " ", "1", ",", " ", "i", " ", "<", " ", "n", " ", "i", "n", " ", "i">>,
      \* def u(x) -x
      <<"d", "e", "f", " ", "u", "(", "x", ")", " ", "-", "x">>,
      \* exit
      <<"e", "x", "i", "t">>,
      \* 4+5
      <<"4", "+", "5">>,
      \* 7 exit
      <<"7", " ", "e", "x", "i", "t">>,
      \* for 1
      <<"f", "o", "r", " ", "1">>,
      \* def anon() 7
      <<"d", "e", "f", " ", "a", "n", "o", "n", "(", ")", " ", "7">> }

Leads == {<<>>, <<";">>}

Separator == <<";", "\n">>

LastLine == <<"e", "x", "i", "t", "\n">>

RECURSIVE Concat(_)
Concat(items) ==
    IF items = <<>> THEN <<>>
    ELSE Head(items) \o Separator \o Concat(Tail(items))

Programs ==
    { [lead |-> l, items |-> p, text |-> l \o Concat(p) \o LastLine] :
      l \in Leads, p \in SeqsUpTo(Items, MaxItems) }

Init ==
    /\ \E g \in Programs :
          /\ given = g
          /\ state = NewState(g.text)
    /\ pc = "main"
    /\ node = Null
    /\ log = <<>>

After(st, normal) == IF Panicked(st) THEN "panicked" ELSE normal

\* main.rs line 74: prime the first token
Main_Prime ==
    /\ pc = "main"
    /\ state' = get_next_token(state)
    /\ pc' = After(state', "main_loop")
    /\ UNCHANGED <<node, log, given>>

\* parser.rs line 475
MainLoop_FetchFirst ==
    /\ pc = "main_loop"
    /\ state' = get_next_token(state)
    /\ pc' = After(state', "dispatch_first")
    /\ UNCHANGED <<node, log, given>>

\* parser.rs line 485
MainLoop_Fetch ==
    /\ pc = "loop"
    /\ state' = get_next_token(state)
    /\ pc' = After(state', "dispatch")
    /\ UNCHANGED <<node, log, given>>

AtDispatch == pc \in {"dispatch_first", "dispatch"}

\* what a module holds: per function its name, its number of blocks and the
\* number of ids it has handed out
Holds(module) ==
    [i \in DOMAIN module |->
        <<module[i].name, Len(module[i].blocks), module[i].next_id>>]

\* one entry of the history of dispatches: the index in the token stream of
\* the token dispatched on, that token, the arm taken, the index of the
\* current token when the arm returned, what was JIT-invoked, and what the
\* module and the prototype registry held before and after the arm
Dispatched(arm, st, out) ==
    Append(log, [idx  |-> Len(state.toks), tok |-> state.cur_tok, arm |-> arm,
                 first |-> pc = "dispatch_first",
                 next |-> Len(st.toks), out |-> out,
                 died |-> Panicked(st),
                 module_before |-> Holds(state.module),
                 module_after  |-> Holds(st.module),
                 protos_before |-> DOMAIN state.function_protos,
                 protos_after  |-> DOMAIN st.function_protos])

\* the effect of a handler arm on the program's state
Handled(arm, h) ==
    /\ state' = h.st
    /\ node' = h.ast
    /\ log' = Dispatched(arm, h.st, h.out)
    /\ pc' = After(h.st, "loop")
    /\ UNCHANGED given

\* Token::TokEOF => break (line 487)
MainLoop_Break ==
    /\ pc = "dispatch"
    /\ state.cur_tok.t = "TokEOF"
    /\ pc' = "print"
    /\ log' = Dispatched("break", state, NoOut)
    /\ UNCHANGED <<state, node, given>>

\* Token::TokChar(';') => get_next_token(state)
MainLoop_Semicolon ==
    /\ AtDispatch
    /\ IsChar(state.cur_tok, ";")
    /\ state' = get_next_token(state)
    /\ pc' = After(state', "loop")
    /\ log' = Dispatched("semicolon", state', NoOut)
    /\ UNCHANGED <<node, given>>

MainLoop_Definition ==
    /\ AtDispatch
    /\ state.cur_tok.t = "TokDef"
    /\ Handled("definition", handle_definition(state))

MainLoop_Extern ==
    /\ AtDispatch
    /\ state.cur_tok.t = "TokExtern"
    /\ Handled("extern", handle_extern(state))

MainLoop_TopLevelExpression ==
    /\ AtDispatch
    /\ ~IsChar(state.cur_tok, ";")
    /\ state.cur_tok.t \notin {"TokDef", "TokExtern"}
    /\ pc = "dispatch" => state.cur_tok.t # "TokEOF"
    /\ Handled("expression", handle_top_level_expression(state))

\* main.rs line 79: print the module
Main_Print ==
    /\ pc = "print"
    /\ pc' = "done"
    /\ UNCHANGED <<state, node, log, given>>

Next ==
    \/ Main_Prime
    \/ MainLoop_FetchFirst
    \/ MainLoop_Fetch
    \/ MainLoop_Break
    \/ MainLoop_Semicolon
    \/ MainLoop_Definition
    \/ MainLoop_Extern
    \/ MainLoop_TopLevelExpression
    \/ Main_Print

Spec == Init /\ [][Next]_vars

(***************************************************************************)
(* SpecParse: parse_expression on `a op1 b op2 c` and parse_prototype on   *)
(* prototypes, after the lexer is primed.                                  *)
(***************************************************************************)
Id(c) == <<c>>

\* operand source texts with the node each denotes
Operands ==
    { [text |-> <<"x">>, ast |-> Variable(Id("x"))],
      [text |-> <<"7">>, ast |-> Number(F64(7))],
      [text |-> <<"(", "y", ")">>, ast |-> Variable(Id("y"))],
      [text |-> <<"f", "(", "2", ")">>,
       ast |-> Call(Id("f"), <<Number(F64(2))>>)] }

Sp == <<" ">>

EndOfLine == <<";", "\n">>

ExprInputs ==
    { [kind |-> "expr", a |-> a, op1 |-> op1, b |-> b, op2 |-> op2, c |-> c,
       text |-> a.text \o Sp \o <<op1>> \o Sp \o b.text \o Sp \o <<op2>> \o Sp
                \o c.text \o EndOfLine] :
      a \in Operands, b \in Operands, c \in Operands,
      op1 \in DOMAIN SeedPrecedence, op2 \in DOMAIN SeedPrecedence }

PrecTexts ==
    { <<>>, <<"0">>, <<"1">>, <<"2", ".", "5">>, <<"3", "0">>,
      <<"1", "0", "0">>, <<"1", "0", "0", ".", "5">>, <<"1", "0", "1">>,
      <<"0", ".", "5">>, <<"7", ".", "0">> }

ProtoInputs ==
    { [kind |-> "proto", op |-> op, prec |-> n,
       text |-> <<"b", "i", "n", "a", "r", "y", " ">> \o <<op>> \o Sp \o n
                \o <<" ", "(", "x", " ", "y", ")">> \o EndOfLine] :
      op \in {":", "|", "+"}, n \in PrecTexts }

MaxVarNames == 2

\* one declared name of a `var`, without and with an initializer
VarDecls ==
    { [name |-> Id("a"), text |-> <<"a">>],
      [name |-> Id("a"), text |-> <<"a", " ", "=", " ", "1">>],
      [name |-> Id("b"), text |-> <<"b">>],
      [name |-> Id("b"), text |-> <<"b", " ", "=", " ", "2">>] }

RECURSIVE VarList(_, _)
\* the declarations ds[i..], separated by commas
VarList(ds, i) ==
    IF i = Len(ds) THEN ds[i].text
    ELSE ds[i].text \o <<",", " ">> \o VarList(ds, i + 1)

\* var <declarations> in a
VarInputs ==
    { [kind |-> "var", decls |-> ds,
       text |-> <<"v", "a", "r", " ">> \o VarList(ds, 1)
                \o <<" ", "i", "n", " ", "a">> \o EndOfLine] :
      ds \in UNION { [1..n -> VarDecls] : n \in 1..MaxVarNames } }

InitParse ==
    /\ \E g \in ExprInputs \cup ProtoInputs \cup VarInputs :
          /\ given = g
          /\ state = NewState(g.text)
    /\ pc = "prime"
    /\ node = Null
    /\ log = <<>>

PrimeToken ==
    /\ pc = "prime"
    /\ state' = get_next_token(state)
    /\ pc' = IF Panicked(state') THEN "panicked" ELSE given.kind
    /\ UNCHANGED <<node, log, given>>

Parsed(r) ==
    /\ state' = r.st
    /\ node' = r.ast
    /\ pc' = After(r.st, "parsed")
    /\ UNCHANGED <<log, given>>

ParseExpression ==
    /\ pc \in {"expr", "var"}
    /\ Parsed(parse_expression(state))

ParsePrototype ==
    /\ pc = "proto"
    /\ Parsed(parse_prototype(state))

NextParse == PrimeToken \/ ParseExpression \/ ParsePrototype

SpecParse == InitParse /\ [][NextParse]_vars

(***************************************************************************)
(* SpecGen: codegen on a function whose body is one binary expression,     *)
(* with or without a definition of the function binary<op> lowered first.  *)
(***************************************************************************)
GenOperands == {Number(F64(1)), Number(F64(2)), Variable(Id("x"))}

GenOps == {"+", "-", "*", "<", ":", "|"}

GenInputs ==
    { [kind |-> "gen", known |-> k, body |-> Binary(op, a, b)] :
      k \in BOOLEAN, op \in GenOps, a \in GenOperands, b \in GenOperands }

\* `for` bodies of the host function t(x): the loop variable shadows the
\* parameter x or is the new name i; start, end and body refer to x or i; the
\* body may be a second `for`
ForNames == {Id("x"), Id("i")}

ForLeaves == {Number(F64(1)), Variable(Id("x")), Variable(Id("i"))}

InnerFors ==
    { For(v, s, Variable(v), Null, b) :
      v \in ForNames, s \in ForLeaves, b \in ForLeaves }

ForInputs ==
    { [kind |-> "for", known |-> FALSE, body |-> For(v, s, Variable(v), Null, b)] :
      v \in ForNames, s \in ForLeaves, b \in ForLeaves \cup InnerFors }

\* def binary<op> (a b) b
OperatorDef(op) ==
    Function(Prototype(Append(BinaryPrefix, op), <<Id("a"), Id("b")>>, TRUE, 30),
             Variable(Id("b")))

\* def t(x) <body>
HostDef(body) == Function(Prototype(Id("t"), <<Id("x")>>, FALSE, 30), body)

InitGen ==
    /\ \E g \in GenInputs \cup ForInputs :
          /\ given = g
          /\ pc = IF g.known THEN "operator" ELSE "function"
    /\ state = NewState(<<>>)
    /\ node = Null
    /\ log = <<>>

Lowered(n, v) ==
    /\ state' = v.st
    /\ node' = n
    /\ pc' = After(v.st, IF pc = "operator" THEN "function" ELSE "lowered")
    /\ UNCHANGED <<log, given>>

DefineOperator ==
    /\ pc = "operator"
    /\ Lowered(OperatorDef(given.body.op), codegen(state, OperatorDef(given.body.op)))

LowerFunction ==
    /\ pc = "function"
    /\ Lowered(HostDef(given.body), codegen(state, HostDef(given.body)))

NextGen == DefineOperator \/ LowerFunction

SpecGen == InitGen /\ [][NextGen]_vars

(***************************************************************************)
(* Properties.                                                             *)
(***************************************************************************)
\* the positions <<block, index>> of the instructions of a function
Positions(fn) ==
    { q \in (DOMAIN fn.blocks) \X (1..fn.next_id) :
          q[2] \in DOMAIN fn.blocks[q[1]].instrs }

InstrAt(fn, q) == fn.blocks[q[1]].instrs[q[2]]

\* C1  No token is lost between the lexer and the parser: the first dispatch
\* of main_loop is on the token main primed (the first token of the input),
\* and every later dispatch is on the token that was current when the
\* previous item's handler returned.
C1_NoTokenLost ==
    \A i \in DOMAIN log :
        log[i].idx = IF i = 1 THEN 1 ELSE log[i - 1].next

\* C2  An EOF token at a dispatch point, the first one included, ends the
\* loop: it is never handed to a handler, and the lexer is never called again
\* once the current token is EOF.
C2_EofEndsLoop ==
    /\ \A i \in DOMAIN log : log[i].tok = TokEOF => log[i].arm = "break"
    /\ \A i \in DOMAIN state.toks : state.toks[i] = TokEOF => i = Len(state.toks)
    /\ state.cur_tok = TokEOF => ~state.at_eof

\* C3  When the byte source is exhausted, get_token returns the EOF token:
\* once the end of input has been met the lexer has not failed and the
\* current token is EOF.
C3_EofToken ==
    state.at_eof => (~Panicked(state) /\ state.cur_tok = TokEOF)

\* C4  The lexer has no error outcome: as long as the end of input has not
\* been met, get_token returns a token for every character sequence, a run of
\* digits and dots that is not a float included.
C4_LexerTotal ==
    ~state.at_eof => ~Panicked(state)

(***************************************************************************)
(* C5  parse_expression on `a op1 b op2 c`: operators of equal priority    *)
(* group to the left, Binary(op2, Binary(op1, a, b), c); a strictly higher *)
(* priority of op2 groups to the right, Binary(op1, a, Binary(op2, b, c)). *)
(***************************************************************************)
C5_Grouping ==
    (pc = "parsed" /\ given.kind = "expr") =>
        LET p1 == SeedPrecedence[given.op1]
            p2 == SeedPrecedence[given.op2]
        IN  /\ p1 = p2 =>
                node = Binary(given.op2,
                              Binary(given.op1, given.a.ast, given.b.ast),
                              given.c.ast)
            /\ p2 > p1 =>
                node = Binary(given.op1, given.a.ast,
                              Binary(given.op2, given.b.ast, given.c.ast))

C5_Witness ==
    /\ pc = "parsed"
    /\ given.kind = "expr"
    /\ given.op1 = "-" /\ given.op2 = "+"
    /\ node.kind = "Binary" /\ node.op = "+" /\ node.lhs.kind = "Binary"

\* C6  A function body may be any expression kind parse_expression returns:
\* building the Function node never fails on a body that is a Number,
\* Variable, Unary, Binary, Call, If, For or Var.
C6_AnyBodyKind ==
    state.panic.msg = "assertion failed: body is an ExprAST" =>
        state.panic.arg \notin {"Number", "Variable", "Unary", "Binary", "Call",
                                "If", "For", "Var"}

\* C7  After the driver has handled a definition of a binary operator
\* `def binary X N (a b) body`, the precedence table maps X to N.
C7_PrecedenceInstalled ==
    (/\ ~Panicked(state)
     /\ node.kind = "Function"
     /\ node.proto.is_operator
     /\ Len(node.proto.args) = 2) =>
        /\ node.proto.name[Len(node.proto.name)] \in DOMAIN state.bin_op_precedence
        /\ state.bin_op_precedence[node.proto.name[Len(node.proto.name)]]
               = node.proto.precedence

\* C8  In a `binary CHAR N` prototype a supplied precedence N (the third
\* token) is accepted exactly when it is an integer value in [1,100]; every
\* other N is rejected with the invalid-precedence error; an accepted
\* prototype carries N.
C8_PrecedenceRange ==
    (/\ given.kind = "proto"
     /\ given.prec # <<>>
     /\ pc \in {"parsed", "panicked"}) =>
        IF state.toks[3].v.e = 0 /\ state.toks[3].v.n \in 1..100
        THEN /\ ~Panicked(state)
             /\ node.kind = "Prototype"
             /\ node.precedence = state.toks[3].v.n
        ELSE state.panic.msg = "Invalid precedence: must be 1..100"

\* C9  Lowering Binary(op, a, b) for an op other than = + - * < emits a call
\* with two arguments to the function named "binary" followed by op; it
\* fails only when no such function is known.
C9_UserOperatorCall ==
    (/\ given.kind = "gen"
     /\ given.body.op \notin {"=", "+", "-", "*", "<"}
     /\ node = HostDef(given.body)) =>
        IF given.known
        THEN /\ ~Panicked(state)
             /\ \E q \in Positions(state.module[FindFunction(state.module, Id("t"))]) :
                   /\ InstrAt(state.module[FindFunction(state.module, Id("t"))], q).op = "call"
                   /\ InstrAt(state.module[FindFunction(state.module, Id("t"))], q).args
                          [1] = Append(BinaryPrefix, given.body.op)
                   /\ Len(InstrAt(state.module[FindFunction(state.module, Id("t"))], q).args
                          [2]) = 2
        ELSE Panicked(state)

IsNextVar(ins) == ins.op = "fadd" /\ ins.name = "nextvar"

\* the constant added by a nextvar instruction (-1 when it adds no constant)
StepOf(ins) == IF ins.args[2].op = "const" THEN ins.args[2].args[1] ELSE F64(-1)

\* C10  A `for` without a step expression advances its loop variable by 1.0:
\* in the function lowered from it, the second operand of the addition that
\* computes the next value of the variable is the constant 1.0.
C10_DefaultStepOne ==
    (/\ ~Panicked(state)
     /\ node.kind = "Function"
     /\ node.body.kind = "For"
     /\ IsNull(node.body.step)
     /\ FindFunction(state.module, node.proto.name) # 0) =>
        \A q \in Positions(state.module[FindFunction(state.module, node.proto.name)]) :
            IsNextVar(InstrAt(state.module[FindFunction(state.module, node.proto.name)], q))
                => StepOf(InstrAt(state.module[FindFunction(state.module, node.proto.name)], q))
                       = F64(1)

\* the number of blocks of a function that carry the label `entry`
EntryBlocks(fn) == Cardinality({i \in DOMAIN fn.blocks : fn.blocks[i].label = "entry"})

\* C11  Emitting a Function whose name already has a body in the module fails
\* with the function-cannot-be-redefined error and leaves the existing blocks
\* unchanged: no function ever has a second entry block, and a definition
\* arm never changes the number of blocks or instructions of a function the
\* module held before it.
C11_NoRedefinition ==
    /\ \A f \in DOMAIN state.module : EntryBlocks(state.module[f]) <= 1
    /\ \A i \in DOMAIN log :
          log[i].arm = "definition" =>
              \A f \in DOMAIN log[i].module_before :
                  log[i].module_after[f] = log[i].module_before[f]

\* C12  Handling a top-level expression does not pollute persistent state:
\* when handle_top_level_expression returns, the module holds exactly the
\* functions it held before the call and the prototype registry holds
\* exactly the entries it held before the call.
C12_NoPollution ==
    \A i \in DOMAIN log :
        (log[i].arm = "expression" /\ ~log[i].died) =>
            /\ log[i].module_after = log[i].module_before
            /\ log[i].protos_after = log[i].protos_before

\* C13  When the parser yields a nil AST inside a top-level item, the driver
\* skips one token and keeps running: the process never dies on a nil body
\* handed to the Function constructor.
C13_NilRecovery ==
    state.panic.msg = "assertion failed: body is an ExprAST" =>
        state.panic.arg # "Null"

\* names a program of the model can refer to, and one it never defines
ResolveNames == {Id("f"), Id("g"), Id("h"), Id("u"), Id("z"), AnonName}

\* get_function called in state st leaves everything but the module alone
SameButModule(st, after) ==
    /\ ~Panicked(after)
    /\ DOMAIN after.function_protos = DOMAIN st.function_protos
    /\ after.toks = st.toks
    /\ after.builder = st.builder

\* C14  get_function(f) returns the function already present in the current
\* module when there is one; otherwise, when the prototype registry has an
\* entry for f, it adds a declaration of f (no blocks, the registered
\* parameters) to the module and returns it; otherwise it fails.  So every
\* registered name resolves in every later state of the driver.
C14_Resolution ==
    ~Panicked(state) =>
        \A name \in ResolveNames :
            IF FindFunction(state.module, name) # 0
            THEN /\ get_function(state, name).fn = FindFunction(state.module, name)
                 /\ SameButModule(state, get_function(state, name).st)
                 /\ Holds(get_function(state, name).st.module) = Holds(state.module)
            ELSE IF name \in DOMAIN state.function_protos
            THEN /\ get_function(state, name).fn = Len(state.module) + 1
                 /\ SameButModule(state, get_function(state, name).st)
                 /\ Holds(get_function(state, name).st.module)
                        = Append(Holds(state.module), <<name, 0, 1>>)
                 /\ get_function(state, name).st.module[Len(state.module) + 1].params
                        = state.function_protos[name].args
            ELSE /\ Panicked(get_function(state, name).st)
                 /\ get_function(state, name).st.panic.arg = name

\* a call to f, defined by an earlier item, was lowered and run, and the
\* registry holds a name (the wrapper's) that the module does not
C14_Witness ==
    /\ ~Panicked(state)
    /\ Len(log) >= 2
    /\ log[1].arm = "definition"
    /\ log[2].arm = "expression"
    /\ log[2].out.called
    /\ \E q \in Positions(log[2].out.fn) :
          /\ InstrAt(log[2].out.fn, q).op = "call"
          /\ InstrAt(log[2].out.fn, q).args[1] = Id("f")
    /\ AnonName \in DOMAIN state.function_protos
    /\ FindFunction(state.module, AnonName) = 0

IsLoopCond(ins) == ins.op = "fcmp one" /\ ins.name = "loopcond"

\* C15  In a lowered `for`, the `end` expression is evaluated after the loop
\* variable was reloaded, incremented and stored: the value the loop
\* condition tests is computed by an instruction emitted later than the
\* nextvar addition of the same loop block.
C15_EndAfterIncrement ==
    \A f \in DOMAIN state.module :
        \A q \in Positions(state.module[f]) :
            \A p \in Positions(state.module[f]) :
                (/\ IsLoopCond(InstrAt(state.module[f], q))
                 /\ IsNextVar(InstrAt(state.module[f], p))
                 /\ p[1] = q[1]
                 /\ InstrAt(state.module[f], q).args[1].op # "const")
                    => InstrAt(state.module[f], q).args[1].id
                          > InstrAt(state.module[f], p).id

RECURSIVE Scoped(_, _)
\* every variable of e is in scope, a loop variable being in scope in the
\* end, step and body of its `for` and nowhere else
Scoped(e, scope) ==
    CASE e.kind = "Variable" -> e.name \in scope
      [] e.kind = "For" ->
            /\ Scoped(e.start, scope)
            /\ Scoped(e.body, scope \cup {e.name})
            /\ Scoped(e.step, scope \cup {e.name})
            /\ Scoped(e.end, scope \cup {e.name})
      [] OTHER -> TRUE

\* the lowering of the body ran to its end (the function built from it may
\* still have been refused by the verifier afterwards)
BodyLowered ==
    \/ ~Panicked(state)
    \/ state.panic.msg
          = "FunctionAST code generation failure. LLVM could not verify function."

\* C16  Lowering a `for` leaves named_values as it found it.  In t(x) with a
\* `for` body: start is lowered without the loop variable (it fails on the
\* unbound i and reads the parameter's slot for x), body and end see the
\* loop's slot, and after the lowering the table again maps exactly x to the
\* parameter's slot, for one `for` and for a `for` inside a `for`.
C16_TableRestored ==
    (given.kind = "for" /\ pc # "function") =>
        IF Scoped(given.body, {Id("x")})
        THEN /\ BodyLowered
             /\ DOMAIN state.named_values = {Id("x")}
             /\ state.named_values[Id("x")].op = "alloca"
             /\ state.named_values[Id("x")].id = 2
             /\ given.body.start = Variable(Id("x")) =>
                   \E q \in Positions(state.module[1]) :
                       /\ InstrAt(state.module[1], q).op = "store"
                       /\ InstrAt(state.module[1], q).args[1].id = 4
                       /\ InstrAt(state.module[1], q).args[2].op = "load"
                       /\ InstrAt(state.module[1], q).args[2].args[1].id = 2
             /\ given.body.body = Variable(given.body.name) =>
                   \E q \in Positions(state.module[1]) :
                       /\ q[1] = 2
                       /\ InstrAt(state.module[1], q).op = "load"
                       /\ InstrAt(state.module[1], q).args[1].id = 4
        ELSE state.panic.msg
                = "VariableExprAST code generation failure. Could not find key"

\* a loop on x, shadowing the parameter, whose start reads x, was lowered
C16_Witness ==
    /\ given.kind = "for"
    /\ pc = "lowered"
    /\ ~Panicked(state)
    /\ given.body.name = Id("x")
    /\ given.body.start = Variable(Id("x"))
    /\ given.body.body = Variable(Id("x"))

\* C17  Every alloca stands at the top of the entry block: in the first block
\* of every function of the module no alloca follows an instruction that is
\* not an alloca, and none follows the block's terminator.
C17_AllocasFirst ==
    \A f \in DOMAIN state.module :
        \A q \in Positions(state.module[f]) :
            \A p \in Positions(state.module[f]) :
                (/\ q[1] = 1
                 /\ p[1] = 1
                 /\ p[2] < q[2]
                 /\ InstrAt(state.module[f], q).op = "alloca")
                    => InstrAt(state.module[f], p).op = "alloca"

\* C18  Parsing `var n1 [= e1], n2 [= e2], ... in body` yields a Var node with
\* one binding per declared name: as many bindings as names were written,
\* also when a name is written twice.
C18_BindingPerName ==
    (pc = "parsed" /\ given.kind = "var") =>
        /\ node.kind = "Var"
        /\ Cardinality(DOMAIN node.names) = Len(given.decls)

====
